---- MODULE Spec2Model ----
(***************************************************************************)
(* The five consciousness engines of code/phase1..phase5: one engine       *)
(* instance, its process_step, and the random draws that feed it.          *)
(*                                                                         *)
(* Real numbers are fixed point, in thousandths: 1.0 is 1000, the          *)
(* threshold 0.3 is 300, the learning gains 0.01 and 0.001 are 10 and 1.   *)
(* random.choice picks among the entries of its list that the vocabulary   *)
(* bound admits; random.uniform(a, b) picks among the end points of [a,b]. *)
(***************************************************************************)
EXTENDS Integers, Sequences, FiniteSets

VARIABLES
    phase,        \* which engine the instance is: 1..5 (phase1_minimal .. phase5_consciousness)
    environment,  \* the environment argument every process_step of the run is given
    sys,          \* the engine instance: its fields
    result,       \* the dict the latest process_step returned, Nil before the first
    history,      \* per process_step call so far: its stimulus and the self_strength
                  \* and is_conscious it stored, oldest first
    warm,         \* the length of the warm-up the run opens with
    steps,        \* process_step calls made after the warm-up
    run,          \* the run_experiment call that drives the instance: its steps
                  \* argument, its consciousness_count and how far it is; status
                  \* "direct" when the caller calls process_step itself
    report,       \* what the call just made returned, when it was report_feeling
    dna_argument  \* the dna_values argument the phase 3 instance was constructed
                  \* with; DNA_NONE for the engines whose constructor takes none

vars == <<phase, environment, sys, result, history, warm, steps, run, report, dna_argument>>

\* process_step calls made on the instance so far
calls == Len(history)

(***************************** bounds **************************************)
\* process_step calls explored with free draws after the warm-up
MaxSteps == 4
\* random.choice picks among the first MaxVocab entries and the last entry
MaxVocab == 1
\* longest warm-up of the engines with the 10-entry history alone
MaxWarmShort == 16
\* longest warm-up of the engines with the 100-entry memory
MaxWarmLong == 120
\* the --dna_pain values explored go in steps of 0.5 from 0.5 to MaxDnaHalves / 2,
\* with either sign
MaxDnaHalves == 3
\* largest steps argument given to run_experiment
MaxRunSteps == 2
\* the smallest steps argument given to run_experiment is -MaxNegSteps
MaxNegSteps == 1

(************************** program constants ******************************)
ONE == 1000
THRESHOLD == 300
GAIN_SHORT == 10
GAIN_LONG == 1
SYNC_WEIGHT == 800
JITTER_LO == 0
JITTER_HI == 200
RECENT_CAPACITY == 10
MEMORY_CAPACITY == 100
WINDOW == 10
LEARNING_RATE == 10
MIXED_FACTOR == 800
FEELING_BOUND == 500

\* None where a stimulus is expected
None == "None"

\* None where a step index is expected; a step index k is <<k>>
Nil == <<>>

(***************************** helpers *************************************)
Min(a, b) == IF a <= b THEN a ELSE b

Max(a, b) == IF a >= b THEN a ELSE b

Abs(x) == IF x < 0 THEN -x ELSE x

\* a * b for a, b in thousandths (0.8 * x, 0.01 * matches ...)
Mul(a, b) == (a * b) \div ONE

\* the append without the pop(0) that follows it
AppendEvict_NoEvict(list, x, capacity) == Append(list, x)

\* the append followed by pop(), which drops the newest entry
AppendEvict_PopLast(list, x, capacity) ==
    IF Len(list) + 1 > capacity THEN list ELSE Append(list, x)

\* list.append(x) followed by "if len(list) > capacity: list.pop(0)"
AppendEvict(list, x, capacity) ==
    LET a == Append(list, x)
    IN IF Len(a) > capacity THEN Tail(a) ELSE a

\* sum(1 for i in range(len(l)-1) if l[i] == l[i+1])
CountMatches(l) == Cardinality({i \in 1..(Len(l) - 1) : l[i] = l[i + 1]})

\* l[-n:]
LastN(l, n) == IF Len(l) <= n THEN l ELSE SubSeq(l, Len(l) - n + 1, Len(l))

\* l[:n]
FirstN(l, n) == IF Len(l) <= n THEN l ELSE SubSeq(l, 1, n)

\* the outcomes of random.choice(l) that the vocabulary bound admits
Choice(l) == {l[i] : i \in {j \in 1..Len(l) : j <= MaxVocab \/ j = Len(l)}}

\* the outcomes of random.uniform(a, b): the end points of the interval
Uniform(a, b) == {a, b}

PredictionErrorBefore_EmptyHit(memory, stimulus) ==
    IF memory # <<>>
    THEN (IF memory[Len(memory)] = stimulus THEN 0 ELSE ONE)
    ELSE 0

\* the prediction made before the append: the last element of the buffer;
\* the error is 1.0 when the buffer is empty
PredictionErrorBefore(memory, stimulus) ==
    IF memory # <<>>
    THEN (IF memory[Len(memory)] = stimulus THEN 0 ELSE ONE)
    ELSE ONE

PredictionErrorAfter_Last(memory, stimulus) ==
    IF Len(memory) >= 2
    THEN (IF memory[Len(memory)] = stimulus THEN 0 ELSE ONE)
    ELSE ONE

\* the prediction made after the append: the second-to-last element of the
\* buffer; the error is 1.0 when the buffer holds fewer than 2 entries
PredictionErrorAfter(memory, stimulus) ==
    IF Len(memory) >= 2
    THEN (IF memory[Len(memory) - 1] = stimulus THEN 0 ELSE ONE)
    ELSE ONE

\* the jitter counted twice
SyncScore_DoubleJitter(prediction_error, jitter) ==
    Mul(prediction_error, SYNC_WEIGHT) + 2 * jitter

\* sync_score = prediction_error * 0.8 + random.uniform(0, 0.2)
SyncScore(prediction_error, jitter) == Mul(prediction_error, SYNC_WEIGHT) + jitter

\* the classification with "or" in place of "and"
Classify_Or(sync_score, self_strength, threshold) ==
    sync_score >= threshold \/ self_strength >= threshold

\* sync_score >= THRESHOLD and self_strength >= THRESHOLD
Classify(sync_score, self_strength, threshold) ==
    sync_score >= threshold /\ self_strength >= threshold

(************************* phase 1: MinimalConsciousness *******************)
P1_qualia_types == <<"pain", "warm", "sweet">>

P1_init ==
    [ qualia_types    |-> P1_qualia_types,
      qualia_values   |-> [q \in {"pain", "warm", "sweet"} |->
                             CASE q = "pain" -> -900
                               [] q = "warm" -> -200
                               [] q = "sweet" -> 700],
      recent_patterns |-> <<>>,
      prediction      |-> None,
      self_strength   |-> 0,
      sync_score      |-> 0,
      is_conscious    |-> FALSE,
      THRESHOLD       |-> THRESHOLD ]

\* the update with "=" in place of "+="
ShortSelfStrength_Assign(self_strength, recent_patterns) ==
    IF Len(recent_patterns) >= 2
    THEN Min(GAIN_SHORT * CountMatches(recent_patterns), ONE)
    ELSE self_strength

\* the update that adds 0.01 once, however many pairs match
ShortSelfStrength_AnyMatch(self_strength, recent_patterns) ==
    IF Len(recent_patterns) >= 2 /\ CountMatches(recent_patterns) > 0
    THEN Min(self_strength + GAIN_SHORT, ONE)
    ELSE self_strength

\* the update that adds 0.01 for every entry of the buffer
ShortSelfStrength_PerEntry(self_strength, recent_patterns) ==
    IF Len(recent_patterns) >= 2
    THEN Min(self_strength + GAIN_SHORT * Len(recent_patterns), ONE)
    ELSE self_strength

\* the update without the cap at 1.0
ShortSelfStrength_NoCap(self_strength, recent_patterns) ==
    IF Len(recent_patterns) >= 2
    THEN self_strength + GAIN_SHORT * CountMatches(recent_patterns)
    ELSE self_strength

\* self_strength += 0.01 * matches; self_strength = min(self_strength, 1.0)
ShortSelfStrength(self_strength, recent_patterns) ==
    IF Len(recent_patterns) >= 2
    THEN Min(self_strength + GAIN_SHORT * CountMatches(recent_patterns), ONE)
    ELSE self_strength

P1_process_step(self, stimulus, jitter) ==
    LET qualia_value == self.qualia_values[stimulus]
        prediction == IF self.recent_patterns # <<>>
                      THEN self.recent_patterns[Len(self.recent_patterns)]
                      ELSE None
        prediction_error == IF prediction = stimulus THEN 0 ELSE ONE
        recent_patterns == AppendEvict(self.recent_patterns, stimulus, RECENT_CAPACITY)
        self_strength == ShortSelfStrength(self.self_strength, recent_patterns)
        sync_score == SyncScore(prediction_error, jitter)
        is_conscious == Classify(sync_score, self_strength, self.THRESHOLD)
    IN [ self   |-> [self EXCEPT !.prediction = prediction,
                                 !.recent_patterns = recent_patterns,
                                 !.self_strength = self_strength,
                                 !.sync_score = sync_score,
                                 !.is_conscious = is_conscious],
         result |-> [ step             |-> Len(recent_patterns),
                      stimulus         |-> stimulus,
                      qualia_value     |-> qualia_value,
                      prediction       |-> prediction,
                      prediction_error |-> prediction_error,
                      self_strength    |-> self_strength,
                      sync_score       |-> sync_score,
                      is_conscious     |-> is_conscious ] ]

(************************* phase 2: QualiaExpansionSystem ******************)
P2_qualia_types ==
    << "pain", "warm", "cold", "hot", "pressure", "itch",
       "tickle", "vibration", "smooth", "rough", "wet", "dry",
       "sharp", "dull", "tingle", "numb", "heavy", "light",
       "sweet", "sour", "bitter", "salty", "umami", "spicy",
       "floral", "fruity", "minty", "woody", "earthy", "smoky",
       "chemical", "rotten", "fresh", "musty",
       "red", "blue", "green", "yellow", "bright", "dark",
       "moving", "still", "near", "far", "sharp_visual", "blurry",
       "loud", "quiet", "high_pitch", "low_pitch", "rhythmic",
       "chaotic", "melodic", "harsh" >>

Range(l) == {l[i] : i \in 1..Len(l)}

\* the constructor's draw for one qualia; u is the fraction random() returned
P2_qualia_value(q, u) ==
    IF q \in {"pain", "rotten", "harsh", "bitter"}
    THEN -ONE + Mul(u, 500)
    ELSE IF q \in {"sweet", "floral", "melodic", "fresh"}
    THEN 500 + Mul(u, 500)
    ELSE -500 + Mul(u, ONE)

P2_init(u) ==
    [ qualia_types    |-> P2_qualia_types,
      qualia_values   |-> [q \in Range(P2_qualia_types) |-> P2_qualia_value(q, u)],
      recent_patterns |-> <<>>,
      prediction      |-> None,
      self_strength   |-> 0,
      sync_score      |-> 0,
      is_conscious    |-> FALSE,
      THRESHOLD       |-> THRESHOLD,
      consciousness_emerged_at |-> Nil ]

\* a reset that draws the qualia values afresh and keeps what was learnt
P2_reinit_Keep(self, u) == [self EXCEPT !.qualia_values = P2_init(u).qualia_values]

\* self.__init__() on an instance in use: every field is assigned anew
P2_reinit(self, u) == P2_init(u)

\* the list process_step hands to random.choice in the given environment
P2_stimuli(self, env) ==
    IF env = "simple" THEN FirstN(self.qualia_types, 3)
    ELSE IF env = "medium" THEN FirstN(self.qualia_types, 10)
    ELSE self.qualia_types

P2_process_step(self, stimulus, jitter) ==
    LET qualia_value == self.qualia_values[stimulus]
        prediction == IF self.recent_patterns # <<>>
                      THEN self.recent_patterns[Len(self.recent_patterns)]
                      ELSE None
        prediction_error == IF prediction = stimulus THEN 0 ELSE ONE
        recent_patterns == AppendEvict(self.recent_patterns, stimulus, RECENT_CAPACITY)
        self_strength == ShortSelfStrength(self.self_strength, recent_patterns)
        sync_score == SyncScore(prediction_error, jitter)
        is_conscious == Classify(sync_score, self_strength, self.THRESHOLD)
        emerged == IF is_conscious /\ self.consciousness_emerged_at = Nil
                   THEN <<Len(recent_patterns)>>
                   ELSE self.consciousness_emerged_at
    IN [ self   |-> [self EXCEPT !.prediction = prediction,
                                 !.recent_patterns = recent_patterns,
                                 !.self_strength = self_strength,
                                 !.sync_score = sync_score,
                                 !.is_conscious = is_conscious,
                                 !.consciousness_emerged_at = emerged],
         result |-> [ stimulus         |-> stimulus,
                      qualia_value     |-> qualia_value,
                      prediction_error |-> prediction_error,
                      self_strength    |-> self_strength,
                      sync_score       |-> sync_score,
                      is_conscious     |-> is_conscious ] ]

(************************* phase 3: DNALearningSystem **********************)
P3_qualia_types == <<"pain", "warm", "sweet", "pleasure">>

P3_default_dna ==
    [q \in {"pain", "warm", "sweet", "pleasure"} |->
        CASE q = "pain" -> -900
          [] q = "warm" -> -200
          [] q = "sweet" -> 700
          [] q = "pleasure" -> 800]

\* dict.get(key, default)
Get(dict, key, default) == IF key \in DOMAIN dict THEN dict[key] ELSE default

\* "if dna_values:" is false for None and for the empty dict
Truthy(dna_values) == dna_values.given /\ DOMAIN dna_values.map # {}

\* the override laid over the defaults: a key it lacks keeps its default
P3_init_Merge(dna_values) ==
    [ qualia_types    |-> P3_qualia_types,
      qualia_dna      |-> IF Truthy(dna_values)
                          THEN [q \in DOMAIN P3_default_dna \cup DOMAIN dna_values.map |->
                                   Get(dna_values.map, q, Get(P3_default_dna, q, 0))]
                          ELSE P3_default_dna,
      qualia_learned  |-> [q \in Range(P3_qualia_types) |-> 0],
      learning_rate   |-> LEARNING_RATE,
      recent_patterns |-> <<>>,
      self_strength   |-> 0,
      sync_score      |-> 0,
      is_conscious    |-> FALSE,
      THRESHOLD       |-> THRESHOLD,
      mixed_states    |-> <<>> ]

P3_init(dna_values) ==
    [ qualia_types    |-> P3_qualia_types,
      qualia_dna      |-> IF Truthy(dna_values) THEN dna_values.map ELSE P3_default_dna,
      qualia_learned  |-> [q \in Range(P3_qualia_types) |-> 0],
      learning_rate   |-> LEARNING_RATE,
      recent_patterns |-> <<>>,
      self_strength   |-> 0,
      sync_score      |-> 0,
      is_conscious    |-> FALSE,
      THRESHOLD       |-> THRESHOLD,
      mixed_states    |-> <<>> ]

\* the learning rate counted as a learned adjustment
get_effective_value_Rate(self, qualia_type) ==
    Get(self.qualia_dna, qualia_type, 0) + self.learning_rate

get_effective_value(self, qualia_type) ==
    Get(self.qualia_dna, qualia_type, 0) + Get(self.qualia_learned, qualia_type, 0)

\* the overflow below -1 returned with its sign
normalize_value_Signed(value) ==
    IF value > ONE THEN <<ONE, value - ONE>>
    ELSE IF value < -ONE THEN <<-ONE, value + ONE>>
    ELSE <<value, 0>>

\* the clamp that drops the overflow
normalize_value_Clamp(value) ==
    IF value > ONE THEN <<ONE, 0>>
    ELSE IF value < -ONE THEN <<-ONE, 0>>
    ELSE <<value, 0>>

\* the distance to the bound returned as overflow inside the range as well
normalize_value_Distance(value) ==
    IF value > ONE THEN <<ONE, value - ONE>>
    ELSE IF value < -ONE THEN <<-ONE, Abs(value) - ONE>>
    ELSE <<value, ONE - Abs(value)>>

\* returns (normalized, overflow)
normalize_value(value) ==
    IF value > ONE THEN <<ONE, value - ONE>>
    ELSE IF value < -ONE THEN <<-ONE, Abs(value) - ONE>>
    ELSE <<value, 0>>

\* a record for every overflow, whatever the stimulus
is_mixed_AnyStimulus(stimulus, overflow) == overflow > 0

\* if stimulus == 'pain' and overflow > 0
P3_is_mixed(stimulus, overflow) == stimulus = "pain" /\ overflow > 0

P3_process_step(self, stimulus, jitter) ==
    LET raw_value == get_effective_value(self, stimulus)
        effective_value == normalize_value(raw_value)[1]
        overflow == normalize_value(raw_value)[2]
        is_mixed == P3_is_mixed(stimulus, overflow)
        mixed_pleasure == IF is_mixed THEN Mul(overflow, MIXED_FACTOR) ELSE 0
        mixed_states ==
            IF is_mixed
            THEN Append(self.mixed_states,
                        [ step     |-> Len(self.recent_patterns) + 1,
                          pain     |-> effective_value,
                          pleasure |-> mixed_pleasure,
                          raw_dna  |-> raw_value ])
            ELSE self.mixed_states
        prediction_error == PredictionErrorBefore(self.recent_patterns, stimulus)
        recent_patterns == AppendEvict(self.recent_patterns, stimulus, RECENT_CAPACITY)
        self_strength == ShortSelfStrength(self.self_strength, recent_patterns)
        sync_score == SyncScore(prediction_error, jitter)
        is_conscious == Classify(sync_score, self_strength, self.THRESHOLD)
    IN [ self   |-> [self EXCEPT !.mixed_states = mixed_states,
                                 !.recent_patterns = recent_patterns,
                                 !.self_strength = self_strength,
                                 !.sync_score = sync_score,
                                 !.is_conscious = is_conscious],
         result |-> [ stimulus        |-> stimulus,
                      dna_value       |-> Get(self.qualia_dna, stimulus, 0),
                      effective_value |-> effective_value,
                      is_mixed        |-> is_mixed,
                      mixed_pleasure  |-> mixed_pleasure,
                      is_conscious    |-> is_conscious ] ]

(************************* phase 4: MemorySelfSystem ***********************)
P4_qualia_types == <<"pain", "warm", "sweet", "red", "blue", "green">>

P4_init(has_memory) ==
    [ has_memory      |-> has_memory,
      qualia_types    |-> P4_qualia_types,
      qualia_values   |-> [q \in Range(P4_qualia_types) |->
                             CASE q = "pain" -> -900
                               [] q = "warm" -> -200
                               [] q = "sweet" -> 700
                               [] q = "red" -> 300
                               [] q = "blue" -> 200
                               [] q = "green" -> 400],
      memory          |-> IF has_memory THEN <<>> ELSE None,
      memory_capacity |-> IF has_memory THEN <<MEMORY_CAPACITY>> ELSE Nil,
      self_strength   |-> 0,
      pattern_matches |-> <<>>,
      sync_score      |-> 0,
      is_conscious    |-> FALSE,
      THRESHOLD       |-> THRESHOLD,
      language_acquired   |-> FALSE,
      can_report_feelings |-> FALSE,
      recent_stimuli  |-> <<>> ]

\* recent_memory = memory[-10:] if len(memory) >= 10 else memory, and its matches
\* the adjacent pairs that differ, counted in place of those that match
P4_pattern_match_count_Changes(memory) ==
    LET recent_memory == IF Len(memory) >= WINDOW THEN LastN(memory, WINDOW) ELSE memory
    IN Len(recent_memory) - 1 - CountMatches(recent_memory)

P4_pattern_match_count(memory) ==
    CountMatches(IF Len(memory) >= WINDOW THEN LastN(memory, WINDOW) ELSE memory)

\* the latch that leaves can_report_feelings alone
P4_language_NoReport(self, self_strength) ==
    IF self_strength >= self.THRESHOLD /\ ~self.language_acquired
    THEN <<TRUE, self.can_report_feelings>>
    ELSE <<self.language_acquired, self.can_report_feelings>>

\* the latch with ">" in place of ">="
P4_language_Strict(self, self_strength) ==
    IF self_strength > self.THRESHOLD /\ ~self.language_acquired
    THEN <<TRUE, TRUE>>
    ELSE <<self.language_acquired, self.can_report_feelings>>

\* the language latch of process_step: (language_acquired, can_report_feelings)
P4_language(self, self_strength) ==
    IF self_strength >= self.THRESHOLD /\ ~self.language_acquired
    THEN <<TRUE, TRUE>>
    ELSE <<self.language_acquired, self.can_report_feelings>>

\* the message returned before language is acquired; it names no stimulus
CANNOT_REPORT == [stimulus |-> None, feeling |-> "Cannot report"]

\* value < -0.5: PAINFUL, value > 0.5: PLEASANT, else NEUTRAL
Feeling(value) ==
    IF value < -FEELING_BOUND THEN "PAINFUL"
    ELSE IF value > FEELING_BOUND THEN "PLEASANT"
    ELSE "NEUTRAL"

\* the message without the check of can_report_feelings
report_feeling_Always(self, stimulus) ==
    [stimulus |-> stimulus, feeling |-> Feeling(self.qualia_values[stimulus])]

report_feeling(self, stimulus) ==
    IF ~self.can_report_feelings
    THEN CANNOT_REPORT
    ELSE [stimulus |-> stimulus, feeling |-> Feeling(self.qualia_values[stimulus])]

\* the stimuli run_experiment asks about once language is acquired
REPORTED == <<"pain", "sweet", "red">>

\* noise is the draw of the memoryless branch, jitter the draw of sync_score
P4_process_step(self, stimulus, noise, jitter) ==
    LET qualia_value == self.qualia_values[stimulus]
        recent_stimuli == AppendEvict(self.recent_stimuli, stimulus, RECENT_CAPACITY)
        memory == IF self.has_memory
                  THEN AppendEvict(self.memory, stimulus, self.memory_capacity[1])
                  ELSE self.memory
        counted == self.has_memory /\ Len(memory) >= 2
        pattern_match_count == IF counted THEN P4_pattern_match_count(memory) ELSE 0
        self_strength == IF counted
                         THEN Min(self.self_strength + GAIN_LONG * pattern_match_count, ONE)
                         ELSE noise
        prediction_error == PredictionErrorAfter(recent_stimuli, stimulus)
        sync_score == SyncScore(prediction_error, jitter)
        is_conscious == Classify(sync_score, self_strength, self.THRESHOLD)
        language == P4_language(self, self_strength)
    IN [ self   |-> [self EXCEPT !.recent_stimuli = recent_stimuli,
                                 !.memory = memory,
                                 !.self_strength = self_strength,
                                 !.sync_score = sync_score,
                                 !.is_conscious = is_conscious,
                                 !.language_acquired = language[1],
                                 !.can_report_feelings = language[2]],
         result |-> [ stimulus          |-> stimulus,
                      self_strength     |-> self_strength,
                      pattern_matches   |-> pattern_match_count,
                      is_conscious      |-> is_conscious,
                      language_acquired |-> language[1] ] ]

(************************* phase 5: ConsciousnessSystem ********************)
P5_qualia_types ==
    << "pain", "warm", "cold", "sweet", "sour", "bitter",
       "red", "blue", "green", "loud", "quiet", "smooth" >>

P5_init ==
    [ qualia_types    |-> P5_qualia_types,
      qualia_values   |-> [q \in Range(P5_qualia_types) |->
                             CASE q = "pain" -> -900 [] q = "warm" -> -200
                               [] q = "cold" -> -400 [] q = "sweet" -> 700
                               [] q = "sour" -> -300 [] q = "bitter" -> -600
                               [] q = "red" -> 300   [] q = "blue" -> 200
                               [] q = "green" -> 400 [] q = "loud" -> -500
                               [] q = "quiet" -> 300 [] q = "smooth" -> 500],
      memory          |-> <<>>,
      memory_capacity |-> MEMORY_CAPACITY,
      self_strength   |-> 0,
      self_strength_history |-> <<>>,
      sync_score      |-> 0,
      sync_history    |-> <<>>,
      is_conscious    |-> FALSE,
      consciousness_history |-> <<>>,
      THRESHOLD       |-> THRESHOLD,
      step_count      |-> 0,
      consciousness_count  |-> 0,
      threshold_crossed_at |-> Nil ]

\* the list process_step hands to random.choice in the given environment
P5_stimuli(self, env) ==
    IF env = "focused" THEN FirstN(self.qualia_types, 3) ELSE self.qualia_types

\* matches among recent = memory[-10:], counted only when len(memory) >= 10
P5_pattern_matches(memory) ==
    IF Len(memory) >= WINDOW THEN CountMatches(LastN(memory, WINDOW)) ELSE 0

consciousness_count_EveryStep(consciousness_count, is_conscious) ==
    consciousness_count + 1

\* self.consciousness_count += 1 if is_conscious else 0
P5_consciousness_count(consciousness_count, is_conscious) ==
    IF is_conscious THEN consciousness_count + 1 ELSE consciousness_count

threshold_crossed_at_EveryCrossing(threshold_crossed_at, is_conscious, was_conscious, step_count) ==
    IF is_conscious /\ ~was_conscious THEN <<step_count>> ELSE threshold_crossed_at

\* the index of the latest conscious step
threshold_crossed_at_Latest(threshold_crossed_at, is_conscious, was_conscious, step_count) ==
    IF is_conscious THEN <<step_count>> ELSE threshold_crossed_at

\* if is_conscious and not was_conscious and self.threshold_crossed_at is None
P5_threshold_crossed_at(threshold_crossed_at, is_conscious, was_conscious, step_count) ==
    IF is_conscious /\ ~was_conscious /\ threshold_crossed_at = Nil
    THEN <<step_count>>
    ELSE threshold_crossed_at

P5_process_step(self, stimulus, jitter) ==
    LET step_count == self.step_count + 1
        qualia_value == self.qualia_values[stimulus]
        memory == AppendEvict(self.memory, stimulus, self.memory_capacity)
        prediction_error == PredictionErrorAfter(memory, stimulus)
        pattern_matches == P5_pattern_matches(memory)
        self_strength == Min(self.self_strength + GAIN_LONG * pattern_matches, ONE)
        sync_score == SyncScore(prediction_error, jitter)
        was_conscious == self.is_conscious
        is_conscious == Classify(sync_score, self_strength, self.THRESHOLD)
        crossed == P5_threshold_crossed_at(self.threshold_crossed_at, is_conscious,
                                           was_conscious, step_count)
    IN [ self   |-> [self EXCEPT
                        !.step_count = step_count,
                        !.memory = memory,
                        !.self_strength = self_strength,
                        !.self_strength_history = Append(@, self_strength),
                        !.sync_score = sync_score,
                        !.sync_history = Append(@, sync_score),
                        !.is_conscious = is_conscious,
                        !.consciousness_history = Append(@, IF is_conscious THEN 1 ELSE 0),
                        !.consciousness_count = P5_consciousness_count(@, is_conscious),
                        !.threshold_crossed_at = crossed],
         result |-> [ step             |-> step_count,
                      stimulus         |-> stimulus,
                      prediction_error |-> prediction_error,
                      pattern_matches  |-> pattern_matches,
                      self_strength    |-> self_strength,
                      sync_score       |-> sync_score,
                      is_conscious     |-> is_conscious ] ]

(******************************* the run ***********************************)
\* the dna_values arguments explored: None, the dict main() builds for
\* --dna_pain=100, and a dict that gives pain alone
DNA_NONE == [given |-> FALSE, map |-> <<>>]

DNA_CLI_PAIN_100 == [given |-> TRUE, map |-> [P3_default_dna EXCEPT !["pain"] = 100 * ONE]]

DNA_ONLY_PAIN_100 == [given |-> TRUE, map |-> [q \in {"pain"} |-> 100 * ONE]]

\* the empty dict
DNA_EMPTY == [given |-> TRUE, map |-> <<>>]

\* the dict main() builds for --dna_pain=v
DNA_CLI_PAIN(v) == [given |-> TRUE, map |-> [P3_default_dna EXCEPT !["pain"] = v]]

\* the dict main() builds for --dna_pleasure=100
DNA_CLI_PLEASURE_100 ==
    [given |-> TRUE, map |-> [P3_default_dna EXCEPT !["pleasure"] = 100 * ONE]]

\* the --dna_pain values explored: inside, on and beyond the bounds -1 and 1
PainValues == {sign * k * (ONE \div 2) : sign \in {-1, 1}, k \in 1..MaxDnaHalves}

DNAValues ==
    {DNA_NONE, DNA_EMPTY, DNA_CLI_PAIN_100, DNA_ONLY_PAIN_100, DNA_CLI_PLEASURE_100}
    \cup {DNA_CLI_PAIN(v) : v \in PainValues}


\* whether the instance keeps the 100-entry memory (phase 4 with memory, phase 5)
LongMemory(ph, self) == ph = 5 \/ (ph = 4 /\ self.has_memory)

\* the lengths of the warm-up explored: a run opens with that many calls whose
\* draws all come out the same, and goes on with MaxSteps calls of free draws
WarmUps(ph, self) ==
    {k * MaxSteps : k \in 0..((IF LongMemory(ph, self) THEN MaxWarmLong ELSE MaxWarmShort)
                              \div MaxSteps)}

\* the caller calls process_step itself
DIRECT == [status |-> "direct", steps |-> 0, consciousness_count |-> 0]

\* run_experiment(steps=n) at the head of its loop
run_experiment(n) == [status |-> "loop", steps |-> n, consciousness_count |-> 0]

\* run_comparison(steps=n) at the head of "for env in environments"
run_comparison(n) == [status |-> "comparison", steps |-> n, consciousness_count |-> 0]

\* the callers explored: direct calls, and for phases 1, 4 and 5 one
\* run_experiment call on the fresh instance
Runs(ph) ==
    {DIRECT} \cup (IF ph \in {1, 4, 5}
                   THEN {run_experiment(n) : n \in (-MaxNegSteps)..MaxRunSteps}
                   ELSE {})

\* a fresh instance of the engine of phase ph, and the caller that drives it
Start(ph, env, self) ==
    /\ phase = ph
    /\ environment = env
    /\ sys = self
    /\ result = Nil
    /\ history = <<>>
    /\ run \in Runs(ph)
    /\ warm \in (IF run = DIRECT THEN WarmUps(ph, self) ELSE {0})
    /\ steps = 0
    /\ report = Nil

\* the instances explored: the constructor call and the environment of the run
Init ==
    \/ Start(1, None, P1_init) /\ dna_argument = DNA_NONE
    \/ \E env \in {"simple", "medium", "complex"}, u \in Uniform(0, ONE) :
           Start(2, env, P2_init(u)) /\ dna_argument = DNA_NONE
    \/ \E d \in DNAValues : Start(3, None, P3_init(d)) /\ dna_argument = d
    \/ \E m \in BOOLEAN : Start(4, None, P4_init(m)) /\ dna_argument = DNA_NONE
    \/ \E env \in {"focused", "varied"} : Start(5, env, P5_init) /\ dna_argument = DNA_NONE

\* the outcomes of random.choice(l) explored at this call: the first entry
\* during the warm-up
ChoiceNow(l) == IF calls < warm THEN {l[1]} ELSE Choice(l)

\* the outcomes of random.uniform(a, b) explored at this call: the lower end
\* during the warm-up
UniformNow(a, b) == IF calls < warm THEN {a} ELSE Uniform(a, b)

\* the draw of sync_score
Jitter == UniformNow(JITTER_LO, JITTER_HI)

\* the noise drawn from an interval that reaches past the threshold
P4_noise_Wide == UniformNow(JITTER_LO, 2 * JITTER_HI)

\* the draw of the memoryless branch of phase 4
P4_noise == UniformNow(JITTER_LO, JITTER_HI)

\* the instance and the run after a process_step call that drew stimulus and
\* came out as st, the pair (self, result)
Recorded(stimulus, st) ==
    /\ run' = IF run.status \in {"loop", "environment"} /\ st.result.is_conscious
              THEN [run EXCEPT !.consciousness_count = @ + 1]
              ELSE run
    /\ sys' = st.self
    /\ result' = st.result
    /\ history' = Append(history, [ stimulus      |-> stimulus,
                                    self_strength |-> st.self.self_strength,
                                    is_conscious  |-> st.self.is_conscious ])
    /\ steps' = IF calls < warm THEN steps ELSE steps + 1
    /\ report' = Nil
    /\ UNCHANGED <<phase, environment, warm, dna_argument>>

\* a process_step call of the run explored: one of the warm-up or of the free
\* calls after it, or one of the loop of run_experiment
Called(stimulus, st) ==
    /\ IF run.status = "direct"
       THEN calls < warm \/ steps < MaxSteps
       ELSE run.status = "loop" /\ calls < run.steps
    /\ Recorded(stimulus, st)

MinimalConsciousness_process_step ==
    /\ phase = 1
    /\ \E stimulus \in ChoiceNow(sys.qualia_types), jitter \in Jitter :
           Called(stimulus, P1_process_step(sys, stimulus, jitter))

QualiaExpansionSystem_process_step ==
    /\ phase = 2
    /\ \E stimulus \in ChoiceNow(P2_stimuli(sys, environment)), jitter \in Jitter :
           Called(stimulus, P2_process_step(sys, stimulus, jitter))

DNALearningSystem_process_step ==
    /\ phase = 3
    /\ \E stimulus \in ChoiceNow(sys.qualia_types), jitter \in Jitter :
           Called(stimulus, P3_process_step(sys, stimulus, jitter))

\* the noise is drawn in the memoryless branch alone
MemorySelfSystem_process_step ==
    /\ phase = 4
    /\ \E stimulus \in ChoiceNow(sys.qualia_types), jitter \in Jitter :
           \E noise \in (IF sys.has_memory /\ Len(sys.memory) >= 1
                         THEN {JITTER_LO} ELSE P4_noise) :
               Called(stimulus, P4_process_step(sys, stimulus, noise, jitter))

ConsciousnessSystem_process_step ==
    /\ phase = 5
    /\ \E stimulus \in ChoiceNow(P5_stimuli(sys, environment)), jitter \in Jitter :
           Called(stimulus, P5_process_step(sys, stimulus, jitter))

\* the calls a long run is followed for
LiveCalls == MaxWarmLong + MaxSteps + WINDOW

\* a process_step call of the phase 4 engine with memory that draws the
\* stimulus of the call before it again, made once the free calls are used up;
\* its jitter comes out at the lower end, as in the warm-up
MemorySelfSystem_process_step_again ==
    /\ phase = 4 /\ sys.has_memory
    /\ run.status = "direct"
    /\ calls >= 1 /\ calls >= warm /\ steps >= MaxSteps
    /\ calls < LiveCalls
    /\ \E st \in {P4_process_step(sys, history[calls].stimulus, JITTER_LO, JITTER_LO)} :
           Recorded(history[calls].stimulus, st)

\* a caller asks the engine how a stimulus feels; nothing but the returned
\* message comes of it
MemorySelfSystem_report_feeling ==
    /\ phase = 4
    /\ run.status = "direct"
    /\ \E stimulus \in Range(REPORTED) :
           report' = <<report_feeling(sys, stimulus)>>
    /\ UNCHANGED <<phase, environment, sys, result, history, warm, steps, run, dna_argument>>

\* run_experiment once "for i in range(steps)" is exhausted: the summary
\* divides by divisor, and the call returns unless that raises
Summarised(divisor) ==
    /\ run.status = "loop"
    /\ calls >= run.steps
    /\ run' = [run EXCEPT !.status = IF divisor = 0 THEN "ZeroDivisionError"
                                     ELSE "returned"]
    /\ UNCHANGED <<phase, environment, sys, result, history, warm, steps, report, dna_argument>>

\* consciousness_count/steps*100
MinimalConsciousness_run_experiment == phase = 1 /\ Summarised(run.steps)

\* consciousness_count/steps*100
MemorySelfSystem_run_experiment == phase = 4 /\ Summarised(run.steps)

\* self.consciousness_count / self.step_count
ConsciousnessSystem_run_experiment == phase = 5 /\ Summarised(sys.step_count)

Next ==
    \/ MinimalConsciousness_process_step
    \/ QualiaExpansionSystem_process_step
    \/ DNALearningSystem_process_step
    \/ MemorySelfSystem_process_step
    \/ ConsciousnessSystem_process_step
    \/ MinimalConsciousness_run_experiment
    \/ MemorySelfSystem_run_experiment
    \/ ConsciousnessSystem_run_experiment
    \/ MemorySelfSystem_report_feeling

Spec == Init /\ [][Next]_vars

\* the phase 3 engine alone
InitDNA == Init /\ phase = 3

NextDNA == DNALearningSystem_process_step

SpecDNA == InitDNA /\ [][NextDNA]_vars

\* the phase 4 engine with memory, called without end: from a fresh instance
\* or after the longest warm-up, the free calls first and from then on calls
\* that repeat the previous stimulus
InitLive ==
    /\ Init
    /\ phase = 4 /\ sys.has_memory
    /\ run = DIRECT
    /\ warm \in {0, (MaxWarmLong \div MaxSteps) * MaxSteps}

NextLive ==
    \/ MemorySelfSystem_process_step
    \/ MemorySelfSystem_process_step_again

SpecLive == InitLive /\ [][NextLive]_vars /\ WF_vars(NextLive)

\* the environments run_comparison goes through, in order
environments == <<"simple", "medium", "complex">>

\* the environment that follows env in the list; None stands before the first
NextEnvironment(env) ==
    IF env = None THEN environments[1]
    ELSE environments[1 + CHOOSE i \in 1..Len(environments) : environments[i] = env]

\* the values of steps explored for run_comparison: the short ones, and the
\* shortest one in which consciousness can emerge
ComparisonSteps == ((-MaxNegSteps)..MaxRunSteps) \cup {RECENT_CAPACITY - 1}

\* the head of "for env in environments": the next environment is entered,
\* the instance is reset and consciousness_count starts at 0
QualiaExpansionSystem_run_comparison ==
    /\ phase = 2
    /\ run.status = "comparison"
    /\ environment' = NextEnvironment(environment)
    /\ \E u \in Uniform(0, ONE) : sys' = P2_reinit(sys, u)
    /\ run' = [run EXCEPT !.status = "environment", !.consciousness_count = 0]
    /\ steps' = 0
    /\ UNCHANGED <<phase, result, history, warm, report, dna_argument>>

\* one call of "for i in range(steps)" in the environment entered; steps
\* counts the calls made in it, and the draws of all calls but the last come
\* out the same
QualiaExpansionSystem_run_comparison_step ==
    /\ phase = 2
    /\ run.status = "environment"
    /\ steps < run.steps
    /\ LET last == steps + 1 = run.steps
           l == P2_stimuli(sys, environment)
       IN \E stimulus \in (IF last THEN Choice(l) ELSE {l[1]}),
             jitter \in (IF last THEN Uniform(JITTER_LO, JITTER_HI) ELSE {JITTER_LO}) :
              Recorded(stimulus, P2_process_step(sys, stimulus, jitter))

\* the loop of the environment is exhausted: results[env] divides by steps;
\* after that the next environment follows, or the call returns
QualiaExpansionSystem_run_comparison_results ==
    /\ phase = 2
    /\ run.status = "environment"
    /\ steps >= run.steps
    /\ run' = [run EXCEPT !.status =
                   IF run.steps = 0 THEN "ZeroDivisionError"
                   ELSE IF environment = environments[Len(environments)] THEN "returned"
                   ELSE "comparison"]
    /\ UNCHANGED <<phase, environment, sys, result, history, warm, steps, report, dna_argument>>

\* run_comparison called on a fresh phase 2 instance
InitCompare ==
    /\ \E u \in Uniform(0, ONE) : sys = P2_init(u)
    /\ phase = 2
    /\ environment = None
    /\ result = Nil
    /\ history = <<>>
    /\ run \in {run_comparison(n) : n \in ComparisonSteps}
    /\ warm = 0
    /\ steps = 0
    /\ report = Nil
    /\ dna_argument = DNA_NONE

NextCompare ==
    \/ QualiaExpansionSystem_run_comparison
    \/ QualiaExpansionSystem_run_comparison_step
    \/ QualiaExpansionSystem_run_comparison_results

SpecCompare == InitCompare /\ [][NextCompare]_vars

(******************************* claims ************************************)
\* whether self_strength is built from memory: every engine but the phase 4
\* engine constructed with has_memory=False
MemoryEnabled == IF phase = 4 THEN sys.has_memory ELSE TRUE

\* C1: the history buffers never hold more entries than their capacity:
\* recent_patterns (phases 1-3) and recent_stimuli (phase 4) at most 10,
\* memory (phases 4-5, when enabled) at most 100.
C1_BuffersBounded ==
    /\ phase \in {1, 2, 3} => Len(sys.recent_patterns) <= 10
    /\ phase = 4 => Len(sys.recent_stimuli) <= 10
    /\ phase = 4 /\ sys.has_memory => Len(sys.memory) <= 100
    /\ phase = 5 => Len(sys.memory) <= 100

\* a phase 4 run past its 100th call: both buffers are full and have evicted
C1_Witness ==
    /\ phase = 4 /\ sys.has_memory
    /\ calls > 100
    /\ Len(sys.memory) = 100
    /\ Len(sys.recent_stimuli) = 10

\* C2: with memory enabled, self_strength after a process_step is never below
\* the self_strength before it, from the initial 0 on.
C2_SelfStrengthMonotone ==
    /\ [](calls = 0 => sys.self_strength = 0)
    /\ [][MemoryEnabled => sys'.self_strength >= sys.self_strength]_vars

\* a phase 4 run with memory whose first step stored the noise 0.2 and whose
\* later steps added to it
C2_Witness ==
    /\ phase = 4 /\ sys.has_memory
    /\ calls >= 2
    /\ history[1].self_strength = JITTER_HI
    /\ sys.self_strength > history[calls - 1].self_strength

\* C3: self_strength and sync_score lie in [0, 1] in every reachable state.
C3_ScalarsInUnitInterval ==
    /\ 0 <= sys.self_strength /\ sys.self_strength <= 1000
    /\ 0 <= sys.sync_score /\ sys.sync_score <= 1000

\* a step that would have taken self_strength past 1.0, with the largest sync_score
C3_Witness ==
    /\ phase \in {1, 2, 3}
    /\ calls >= 2
    /\ sys.self_strength = 1000
    /\ history[calls - 1].self_strength + GAIN_SHORT * CountMatches(sys.recent_patterns) > 1000
    /\ sys.sync_score = 1000

\* C4: after every process_step is_conscious is exactly
\* (sync_score >= 0.3 and self_strength >= 0.3) of the values that step stored,
\* whatever it was before, and THRESHOLD is 0.3 throughout.
C4_ClassifierPure ==
    /\ sys.THRESHOLD = 300
    /\ calls > 0 =>
          /\ sys.is_conscious = (sys.sync_score >= 300 /\ sys.self_strength >= 300)
          /\ result.is_conscious = sys.is_conscious

\* a step that stored is_conscious = False right after a conscious step, with
\* self_strength above the threshold
C4_Witness ==
    /\ calls >= 2
    /\ history[calls - 1].is_conscious
    /\ ~sys.is_conscious
    /\ sys.self_strength >= 300

\* C5: in phase 4 language_acquired, once true, stays true, and
\* can_report_feelings equals language_acquired in every state.
C5_LanguageLatch ==
    /\ [](phase = 4 => sys.can_report_feelings = sys.language_acquired)
    /\ [][phase = 4 /\ sys.language_acquired => sys'.language_acquired]_vars

\* language acquired at an earlier step and still held
C5_Witness ==
    /\ phase = 4
    /\ calls >= 2
    /\ history[calls - 1].self_strength >= 300
    /\ sys.language_acquired /\ sys.can_report_feelings

\* C6: in phase 4, after every process_step language_acquired is true exactly
\* when self_strength was >= 0.3 after this step or an earlier one, so it turns
\* true at the first such step and only there.
C6_LanguageAtFirstCrossing ==
    phase = 4 =>
        /\ sys.language_acquired = (\E i \in 1..calls : history[i].self_strength >= 300)
        /\ calls > 0 => result.language_acquired = sys.language_acquired

\* the step of the first crossing: self_strength is exactly 0.3 for the first time
C6_Witness ==
    /\ phase = 4
    /\ calls >= 2
    /\ \A i \in 1..(calls - 1) : history[i].self_strength < 300
    /\ sys.self_strength = 300
    /\ sys.language_acquired

\* C7: phase 4 without memory: self_strength is at most 0.2, below the
\* threshold, and language_acquired, can_report_feelings and is_conscious are false.
C7_NoMemoryNoSelf ==
    phase = 4 /\ ~sys.has_memory =>
        /\ sys.self_strength <= 200
        /\ sys.self_strength < sys.THRESHOLD
        /\ ~sys.language_acquired
        /\ ~sys.can_report_feelings
        /\ ~sys.is_conscious

\* a memoryless run past the 10-entry buffer, at the top of the noise and with
\* sync_score over the threshold
C7_Witness ==
    /\ phase = 4 /\ ~sys.has_memory
    /\ calls > 10
    /\ sys.self_strength = 200
    /\ sys.sync_score >= 300

\* the instance was constructed with a DNA override in which pain = 100
Pain100 == phase = 3 /\ Get(sys.qualia_dna, "pain", 0) = 100000

\* the latest call drew the stimulus pain
PainDrawn == calls > 0 /\ history[calls].stimulus = "pain"

\* mixed_states holds a record with overflow 99 and pleasure = overflow x 0.8
MixedRecorded ==
    \E i \in 1..Len(sys.mixed_states) :
        LET r == sys.mixed_states[i]
            overflow == Abs(r.raw_dna) - 1000
        IN overflow > 0 /\ overflow = 99000 /\ 10 * r.pleasure = 8 * overflow

\* C8: with a DNA override in which pain = 100, every run in which pain is
\* eventually drawn eventually has a record in mixed_states, with overflow 99
\* and pleasure = overflow x 0.8.
C8_ExtremePainMixes == Pain100 => (<>PainDrawn => <>MixedRecorded)

\* pain drawn for the first time after another stimulus, and recorded
C8_Witness ==
    /\ Pain100
    /\ calls >= 2
    /\ history[1].stimulus # "pain"
    /\ PainDrawn
    /\ Len(sys.mixed_states) = 1
    /\ MixedRecorded

\* C9: with the default DNA values mixed_states stays empty and every step
\* result has is_mixed = False and mixed_pleasure = 0.0.
C9_DefaultNeverMixes ==
    phase = 3 /\ sys.qualia_dna = P3_default_dna =>
        /\ sys.mixed_states = <<>>
        /\ calls > 0 => (~result.is_mixed /\ result.mixed_pleasure = 0)

\* a default-DNA run past the 10-entry buffer whose latest stimulus is pain
C9_Witness ==
    /\ phase = 3 /\ sys.qualia_dna = P3_default_dna
    /\ calls > 10
    /\ PainDrawn
    /\ sys.mixed_states = <<>>

\* the instance as its constructor left it
Constructed ==
    /\ calls = 0
    /\ sys.self_strength = 0 /\ sys.sync_score = 0 /\ ~sys.is_conscious
    /\ phase = 1 => sys.recent_patterns = <<>>
    /\ phase = 4 => sys.recent_stimuli = <<>> /\ ~sys.language_acquired
    /\ phase = 5 => sys.memory = <<>> /\ sys.step_count = 0

\* C11: run_experiment of phases 1, 4 and 5 given a steps argument <= 0 never
\* returns normally: it fails before any step executes and leaves the engine
\* as constructed.
C11_NonPositiveStepsFailFast ==
    run.status # "direct" /\ run.steps <= 0 => run.status # "returned" /\ Constructed

\* the conscious steps so far, by their 1-based index
ConsciousSteps == {i \in 1..calls : history[i].is_conscious}

\* C12: after every process_step of phase 5, step_count is the number of steps
\* executed and the length of each of the three histories; consciousness_count
\* is the number of 1 entries of consciousness_history, which is the number of
\* conscious steps, and is at most step_count.
C12_RunStatisticsConsistent ==
    phase = 5 =>
        /\ sys.step_count = calls
        /\ Len(sys.self_strength_history) = sys.step_count
        /\ Len(sys.sync_history) = sys.step_count
        /\ Len(sys.consciousness_history) = sys.step_count
        /\ sys.consciousness_count =
               Cardinality({i \in 1..Len(sys.consciousness_history) :
                                sys.consciousness_history[i] = 1})
        /\ sys.consciousness_count = Cardinality(ConsciousSteps)
        /\ sys.consciousness_count <= sys.step_count

C12_Witness ==
    /\ phase = 5
    /\ sys.step_count > MEMORY_CAPACITY
    /\ sys.consciousness_count >= 2
    /\ sys.consciousness_count < sys.step_count
    /\ ~sys.is_conscious

\* the first conscious step so far
FirstConscious == CHOOSE i \in ConsciousSteps : \A j \in ConsciousSteps : i <= j

\* C13: in phase 5 threshold_crossed_at is None exactly while no step has been
\* conscious, and is otherwise the 1-based index of the first conscious step.
C13_ThresholdCrossedAtFirst ==
    phase = 5 =>
        sys.threshold_crossed_at =
            (IF ConsciousSteps = {} THEN Nil ELSE <<FirstConscious>>)

\* a second false-to-true flip, after the recorded one
C13_Witness ==
    /\ phase = 5
    /\ sys.threshold_crossed_at # Nil
    /\ \E i \in 2..calls :
           /\ i > sys.threshold_crossed_at[1]
           /\ history[i].is_conscious
           /\ ~history[i - 1].is_conscious

\* C14: in phase 2, once consciousness_emerged_at is set it is the 1-based
\* index of the first process_step call whose is_conscious was true.
C14_EmergedAtFirstConsciousStep ==
    phase = 2 /\ sys.consciousness_emerged_at # Nil =>
        /\ ConsciousSteps # {}
        /\ sys.consciousness_emerged_at = <<FirstConscious>>

\* the stimuli of the run so far, in arrival order
Stimuli == [i \in 1..calls |-> history[i].stimulus]

\* the prediction error of the last step as the caller can observe it: the
\* result's prediction_error, and where the result does not carry it, read off
\* sync_score, whose jitter stays below the 0.8 weight of the error
ObservedError ==
    IF phase \in {1, 2, 5} THEN result.prediction_error
    ELSE IF sys.sync_score <= JITTER_HI THEN 0 ELSE ONE

\* C15: in every variant the prediction error of a step is 0 exactly when a
\* previous step exists and its stimulus equals the current one, and is 1.0
\* otherwise, the first step of a run included.
C15_PredictionErrorIffRepeat ==
    calls >= 1 =>
        ObservedError = (IF calls >= 2 /\ Stimuli[calls] = Stimuli[calls - 1]
                         THEN 0 ELSE ONE)

\* a repeat seen after the 100-entry memory has started to evict
C15_Witness ==
    /\ phase = 5
    /\ calls > MEMORY_CAPACITY + 1
    /\ Len(sys.memory) = MEMORY_CAPACITY
    /\ ObservedError = 0
    /\ Stimuli[calls - 1] # Stimuli[calls - 2]

\* the error of the last step under the convention of phases 1-3, run on the
\* stimuli of this run with the 10-entry buffer
ErrorBefore ==
    PredictionErrorBefore(LastN(FirstN(Stimuli, calls - 1), RECENT_CAPACITY),
                          Stimuli[calls])

\* the error of the last step under the convention of phases 4-5, run on the
\* stimuli of this run with the 100-entry memory
ErrorAfter ==
    PredictionErrorAfter(LastN(Stimuli, MEMORY_CAPACITY), Stimuli[calls])

\* C16 as stated: on the step where memory goes from empty to length 1 the two
\* prediction conventions produce a different prediction error.
C16_ConventionsDifferOnFirstStep ==
    calls = 1 => ErrorBefore # ErrorAfter

\* C16 amended: run side by side on the same stimulus sequence, the two
\* conventions produce the same prediction error on every step - the one the
\* engine reports - the step where memory goes from empty to length 1 included.
C16_ConventionsAgree ==
    calls >= 1 => ErrorBefore = ObservedError /\ ErrorAfter = ObservedError

\* the first step of an engine of each convention
C16_Witness ==
    /\ calls = 1
    /\ phase \in {3, 4}
    /\ ObservedError = ONE
    /\ ErrorBefore = ErrorAfter

\* C17: every history buffer is a FIFO of its capacity: after n calls it holds
\* the last min(n, capacity) stimuli of the run in arrival order - capacity 10
\* for recent_patterns and recent_stimuli, 100 for memory.
C17_BuffersAreFifo ==
    /\ phase \in {1, 2, 3} => sys.recent_patterns = LastN(Stimuli, RECENT_CAPACITY)
    /\ phase = 4 => sys.recent_stimuli = LastN(Stimuli, RECENT_CAPACITY)
    /\ phase = 4 /\ sys.has_memory => sys.memory = LastN(Stimuli, MEMORY_CAPACITY)
    /\ phase = 5 => sys.memory = LastN(Stimuli, MEMORY_CAPACITY)

\* the 100-entry memory after it has evicted, with a changed stimulus at the back
C17_Witness ==
    /\ phase = 5
    /\ calls > MEMORY_CAPACITY
    /\ Len(sys.memory) = MEMORY_CAPACITY
    /\ sys.memory[MEMORY_CAPACITY] # sys.memory[MEMORY_CAPACITY - 1]
    /\ sys.memory[MEMORY_CAPACITY] = Stimuli[calls]

\* the adjacent equal pairs among the last w of the first n stimuli of the run
WindowMatches(n, w) ==
    Cardinality({i \in 1..(n - 1) : i > n - w /\ Stimuli[i] = Stimuli[i + 1]})

\* self_strength before the last step
PreviousSelfStrength == IF calls >= 2 THEN history[calls - 1].self_strength ELSE 0

\* C18: in phases 1, 2 and 3 a step sets self_strength to
\* min(1.0, old self_strength + 0.01 x matches), matches being the adjacent
\* equal pairs of recent_patterns after the append and eviction, at most 9;
\* with fewer than 2 entries in the buffer self_strength is unchanged.
C18_ShortSelfStrengthUpdate ==
    phase \in {1, 2, 3} /\ calls >= 1 =>
        /\ WindowMatches(calls, RECENT_CAPACITY) <= RECENT_CAPACITY - 1
        /\ WindowMatches(calls, RECENT_CAPACITY) = CountMatches(sys.recent_patterns)
        /\ sys.self_strength =
               (IF Len(sys.recent_patterns) < 2
                THEN PreviousSelfStrength
                ELSE Min(ONE, PreviousSelfStrength
                              + GAIN_SHORT * WindowMatches(calls, RECENT_CAPACITY)))

\* a step past the eviction point whose window holds both equal and unequal
\* pairs, and which raised self_strength below the cap
C18_Witness ==
    /\ phase \in {1, 2, 3}
    /\ calls > RECENT_CAPACITY
    /\ WindowMatches(calls, RECENT_CAPACITY) \in 2..(RECENT_CAPACITY - 2)
    /\ sys.self_strength > PreviousSelfStrength
    /\ sys.self_strength < ONE

\* C19: in phase 5 every step raises self_strength by 0.001 x the adjacent
\* equal pairs of the last 10 memory entries - of all stored entries when
\* fewer than 10 are stored - capped at 1.0.
C19_LongSelfStrengthUpdate ==
    phase = 5 /\ calls >= 1 =>
        sys.self_strength =
            Min(ONE, PreviousSelfStrength + GAIN_LONG * WindowMatches(calls, WINDOW))

\* C20: in phase 4 with has_memory=True self_strength is never assigned a
\* noise value: after n steps it is min(1.0, 0.001 x the sum of the per-step
\* match counts), each count taken over the last (at most 10) memory entries.
C20_NoNoiseWithMemory ==
    phase = 4 /\ sys.has_memory =>
        sys.self_strength =
            Min(ONE, GAIN_LONG *
                     Cardinality({p \in (1..(calls - 1)) \X (1..(WINDOW - 1)) :
                                      /\ p[1] + p[2] <= calls
                                      /\ Stimuli[p[1]] = Stimuli[p[1] + 1]}))

\* the effective value of the stimulus of the last step
LastRawValue == get_effective_value(sys, Stimuli[calls])

\* C21: normalize_value(v) returns (n, o) with n = v clamped to [-1, 1] and
\* o = max(0, |v| - 1): o is 0 exactly when v is in [-1, 1], and v is n + o
\* above 1 and n - o below -1.
C21_NormalizeClampsWithOverflow ==
    phase = 3 /\ calls >= 1 =>
        LET v == LastRawValue
            n == normalize_value(v)[1]
            o == normalize_value(v)[2]
        IN /\ n = Max(-ONE, Min(ONE, v))
           /\ o = Max(0, Abs(v) - ONE)
           /\ o >= 0
           /\ (o = 0) <=> (-ONE <= v /\ v <= ONE)
           /\ -ONE <= n /\ n <= ONE
           /\ v > ONE => v = n + o
           /\ v < -ONE => v = n - o
           /\ result.effective_value = n

\* a step on a pain value below -1: clamped to -1, with a positive overflow
C21_Witness ==
    /\ phase = 3
    /\ calls >= 1
    /\ LastRawValue < -ONE
    /\ result.effective_value = -ONE
    /\ normalize_value(LastRawValue)[2] = ONE \div 2

\* whether v lies outside [-1, 1]
Outside(v) == v > ONE \/ v < -ONE

\* C22: a phase 3 step appends exactly one record to mixed_states and returns
\* is_mixed = True if and only if its stimulus is pain and the effective pain
\* value lies outside [-1, 1]; otherwise mixed_states is unchanged, and the
\* records already there are never modified or removed. Every record has pain
\* -1.0 or 1.0, raw_dna the unclamped value and pleasure = 0.8 x (|raw_dna| - 1) > 0.
C22_MixedOnlyOnPainOverflow ==
    /\ [](phase = 3 =>
            \A i \in 1..Len(sys.mixed_states) :
                LET r == sys.mixed_states[i]
                IN /\ r.pain \in {-ONE, ONE}
                   /\ r.raw_dna = get_effective_value(sys, "pain")
                   /\ Outside(r.raw_dna)
                   /\ 10 * r.pleasure = 8 * (Abs(r.raw_dna) - ONE)
                   /\ r.pleasure > 0)
    /\ [][phase = 3 /\ history' # history =>
            LET stimulus == history'[calls + 1].stimulus
                before == sys.mixed_states
                after == sys'.mixed_states
            IN IF stimulus = "pain" /\ Outside(get_effective_value(sys, stimulus))
               THEN /\ Len(after) = Len(before) + 1
                    /\ SubSeq(after, 1, Len(before)) = before
                    /\ result'.is_mixed
               ELSE /\ after = before
                    /\ ~result'.is_mixed]_vars

\* two records of a pain value below -1 with a step on another stimulus
\* between them
C22_Witness ==
    /\ phase = 3
    /\ calls >= 3
    /\ Len(sys.mixed_states) = 2
    /\ sys.mixed_states[2].pain = -ONE
    /\ Stimuli[calls] = "pain"
    /\ Stimuli[calls - 1] # "pain"
    /\ result.is_mixed

\* C23: the step field of every record in mixed_states is the 1-based index of
\* the process_step call that emitted it, past the 10-entry buffer as well.
C23_MixedStepIsCallIndex ==
    phase = 3 /\ calls >= 1 /\ result.is_mixed =>
        sys.mixed_states[Len(sys.mixed_states)].step = calls

\* C24: a phase 3 step never changes qualia_dna, qualia_learned or
\* learning_rate: every learned adjustment stays 0.0 and get_effective_value(q)
\* is the DNA value of q at every step.
C24_DnaAndLearningFrozen ==
    /\ [](phase = 3 =>
            /\ \A q \in DOMAIN sys.qualia_learned : sys.qualia_learned[q] = 0
            /\ \A q \in Range(sys.qualia_types) :
                   get_effective_value(sys, q) = Get(sys.qualia_dna, q, 0))
    /\ [][phase = 3 =>
            /\ sys'.qualia_dna = sys.qualia_dna
            /\ sys'.qualia_learned = sys.qualia_learned
            /\ sys'.learning_rate = sys.learning_rate]_vars

\* a run on a DNA override past the 10-entry buffer that has recorded mixed
\* states
C24_Witness ==
    /\ phase = 3
    /\ calls > RECENT_CAPACITY
    /\ sys.qualia_dna # P3_default_dna
    /\ sys.mixed_states # <<>>
    /\ sys.self_strength > 0

\* the feeling each stimulus asked about has by its value: pain -0.9,
\* sweet 0.7, red 0.3
ExpectedFeeling(stimulus) ==
    CASE stimulus = "pain" -> "PAINFUL"
      [] stimulus = "sweet" -> "PLEASANT"
      [] OTHER -> "NEUTRAL"

\* C25: report_feeling returns the fixed cannot-report message for every
\* stimulus while language is not acquired; once acquired it returns PAINFUL
\* for a value < -0.5, PLEASANT for a value > 0.5 and NEUTRAL otherwise, the
\* values -0.5 and 0.5 included; the call changes no engine state.
C25_ReportFeeling ==
    /\ [](phase = 4 /\ report # Nil =>
            IF ~sys.language_acquired
            THEN report[1] = CANNOT_REPORT
            ELSE /\ report[1].stimulus \in Range(REPORTED)
                 /\ report[1].feeling = ExpectedFeeling(report[1].stimulus))
    /\ [](/\ Feeling(-FEELING_BOUND - 1) = "PAINFUL"
          /\ Feeling(-FEELING_BOUND) = "NEUTRAL"
          /\ Feeling(FEELING_BOUND) = "NEUTRAL"
          /\ Feeling(FEELING_BOUND + 1) = "PLEASANT")
    /\ [][phase = 4 /\ report' # Nil =>
            /\ sys' = sys
            /\ result' = result
            /\ history' = history]_vars

\* asked about sweet after language was acquired
C25_Witness ==
    /\ phase = 4
    /\ sys.language_acquired
    /\ report = <<[stimulus |-> "sweet", feeling |-> "PLEASANT"]>>

\* C26: in phase 5 the first threshold crossing does not block later
\* re-classification: once threshold_crossed_at is set, later steps turn
\* is_conscious off and on again and leave threshold_crossed_at as it is.
C26_CrossingDoesNotBlock ==
    [][phase = 5 /\ sys.threshold_crossed_at # Nil =>
          /\ sys'.threshold_crossed_at = sys.threshold_crossed_at
          /\ history' # history =>
                 sys'.is_conscious = (/\ sys'.sync_score >= sys.THRESHOLD
                                      /\ sys'.self_strength >= sys.THRESHOLD)]_vars

\* the three steps after the crossing: not conscious, conscious again, not
\* conscious, with threshold_crossed_at still the step of the crossing
C26_Witness ==
    /\ phase = 5
    /\ calls >= 4
    /\ sys.threshold_crossed_at = <<calls - 3>>
    /\ history[calls - 3].is_conscious
    /\ ~history[calls - 2].is_conscious
    /\ history[calls - 1].is_conscious
    /\ ~history[calls].is_conscious

\* the last step repeated the stimulus of the step before it
Repeated == calls >= 2 /\ Stimuli[calls] = Stimuli[calls - 1]

\* C27: the jitter never decides the classification: a step that repeats the
\* previous stimulus has sync_score <= 0.2 and is not conscious, however large
\* self_strength is; any other step has sync_score >= 0.8 and is conscious
\* exactly when self_strength >= 0.3.
C27_JitterNeverDecides ==
    calls >= 1 =>
        IF Repeated
        THEN sys.sync_score <= JITTER_HI /\ ~sys.is_conscious
        ELSE /\ sys.sync_score >= SYNC_WEIGHT
             /\ sys.is_conscious = (sys.self_strength >= THRESHOLD)

\* a repeat with the largest jitter and self_strength at 1.0
C27_Witness ==
    /\ Repeated
    /\ sys.sync_score = JITTER_HI
    /\ sys.self_strength = ONE
    /\ ~sys.is_conscious

\* 0 + 1 + ... + (n - 1)
Triangle(n) == (n * (n - 1)) \div 2

\* C28: in phases 1, 2 and 3 self_strength is at most 0.01 x (0+1+...+(n-1))
\* after n steps, so after each of the first 8 steps it is below 0.3 and
\* is_conscious is false; step 9 is the earliest conscious step.
C28_NotConsciousBeforeStep9 ==
    phase \in {1, 2, 3} =>
        /\ calls <= RECENT_CAPACITY => sys.self_strength <= GAIN_SHORT * Triangle(calls)
        /\ calls <= 8 => sys.self_strength < THRESHOLD /\ ~sys.is_conscious
        /\ \A i \in ConsciousSteps : i >= 9

\* conscious at step 9
C28_Witness ==
    /\ phase \in {1, 2, 3}
    /\ calls = 9
    /\ sys.is_conscious
    /\ ConsciousSteps = {9}

\* C29: in phase 4 with memory, a run whose steps keep repeating the previous
\* stimulus eventually has self_strength >= 0.3 and language_acquired true,
\* and eventually has self_strength at 1.0 for good: from some call on
\* language_acquired holds and self_strength is 1.0 (hence >= 0.3) at every call.
C29_RepetitionAcquiresLanguage ==
    <>[](sys.language_acquired /\ sys.self_strength = ONE)

\* a run from a fresh instance that used its free calls on changing stimuli
\* and reached 1.0 by repetition
C29_Witness ==
    /\ phase = 4 /\ sys.has_memory
    /\ warm = 0
    /\ calls >= 3
    /\ Stimuli[2] # Stimuli[1]
    /\ Stimuli[3] # Stimuli[2]
    /\ Repeated
    /\ sys.language_acquired
    /\ sys.self_strength = ONE
    /\ PreviousSelfStrength < ONE

\* C30: run_comparison starts the run of each environment from the fresh
\* initial state: before the first process_step of 'simple', 'medium' and
\* 'complex' self_strength is 0.0, recent_patterns is empty, is_conscious is
\* False and consciousness_emerged_at is None, whatever the run of the
\* environment before it left behind.
C30_ComparisonStartsFresh ==
    (phase = 2 /\ run.status = "environment" /\ steps = 0) =>
        /\ environment \in Range(environments)
        /\ sys.self_strength = 0
        /\ sys.recent_patterns = <<>>
        /\ ~sys.is_conscious
        /\ sys.consciousness_emerged_at = Nil

\* the last environment is entered after a run in which consciousness emerged
\* at its last call: the last result still shows it, the instance does not
C30_Witness ==
    /\ phase = 2 /\ run.status = "environment" /\ steps = 0
    /\ environment = "complex"
    /\ calls >= 1
    /\ calls = 2 * run.steps
    /\ result.is_conscious
    /\ result.self_strength >= THRESHOLD
    /\ history[calls].is_conscious
    /\ sys.self_strength = 0
    /\ sys.consciousness_emerged_at = Nil

\* the instance was constructed with an override that holds at least one entry
Overridden == dna_argument.given /\ DOMAIN dna_argument.map # {}

\* C31: in phase 3 a non-empty DNA override replaces the default DNA values
\* wholesale, and an override that is None or empty leaves the defaults
\* (pain -0.9, warm -0.2, sweet 0.7, pleasure 0.8). A stimulus of the
\* vocabulary that the override lacks has effective value 0, and a step on it
\* returns dna_value 0 and effective_value 0 and is not a mixed state.
C31_OverrideReplacesDefaults ==
    phase = 3 =>
        /\ Overridden => sys.qualia_dna = dna_argument.map
        /\ ~Overridden =>
               /\ DOMAIN sys.qualia_dna = {"pain", "warm", "sweet", "pleasure"}
               /\ sys.qualia_dna["pain"] = -900
               /\ sys.qualia_dna["warm"] = -200
               /\ sys.qualia_dna["sweet"] = 700
               /\ sys.qualia_dna["pleasure"] = 800
        /\ \A q \in Range(sys.qualia_types) :
               (Overridden /\ q \notin DOMAIN dna_argument.map) =>
                   /\ get_effective_value(sys, q) = 0
                   /\ normalize_value(get_effective_value(sys, q)) = <<0, 0>>
        /\ (calls >= 1 /\ Overridden /\ result.stimulus \notin DOMAIN dna_argument.map) =>
               /\ result.dna_value = 0
               /\ result.effective_value = 0
               /\ ~result.is_mixed
               /\ result.mixed_pleasure = 0

\* an instance constructed with pain alone has just stepped on pleasure,
\* whose default is 0.8: the step came out with dna_value 0
C31_Witness ==
    /\ phase = 3
    /\ dna_argument = DNA_ONLY_PAIN_100
    /\ calls >= 1
    /\ result.stimulus = "pleasure"
    /\ result.dna_value = 0
    /\ result.effective_value = 0
    /\ P3_default_dna["pleasure"] # 0

====
